---- MODULE Spec2Model ----
(***************************************************************************)
(* transmission_interface::DifferentialTransmission                        *)
(* (differential_transmission.h).                                          *)
(*                                                                         *)
(* The object is modelled with its four fields, the caller's value slots   *)
(* the conversions read and write through pointers, and one call frame     *)
(* per calling thread.  Every conversion is executed statement by          *)
(* statement, so that calls of different threads interleave.               *)
(*                                                                         *)
(* A C++ double is modelled as an exact rational <<n, d>> in lowest terms  *)
(* with d > 0 (d = 0 stands for inf/NaN, the result of a division by       *)
(* zero); rounding is not modelled.  C++ indices 0,1 are TLA+ indices 1,2. *)
(***************************************************************************)
EXTENDS Integers, Sequences, FiniteSets, TLC

\* ------------------------------------------------------------------------
\* Bounds of the model
\* ------------------------------------------------------------------------
MaxCalls == 2    \* conversion calls started in one behaviour
MaxSize == 3     \* sizes of the vectors offered to the constructor: 0..MaxSize

Threads == {1, 2}
MainThread == 1

\* ------------------------------------------------------------------------
\* double arithmetic
\* ------------------------------------------------------------------------
Abs(x) == IF x < 0 THEN -x ELSE x

RECURSIVE GCD(_, _)
GCD(a, b) == IF b = 0 THEN a ELSE GCD(b, a % b)

Norm(n, d) ==
  IF d = 0 THEN <<(IF n > 0 THEN 1 ELSE IF n < 0 THEN -1 ELSE 0), 0>>
  ELSE LET s == IF d < 0 THEN -1 ELSE 1
           g == GCD(Abs(n), Abs(d))
       IN  <<(s * n) \div g, (s * d) \div g>>

R(i) == <<i, 1>>
RAdd(x, y) == Norm(x[1] * y[2] + y[1] * x[2], x[2] * y[2])
RSub(x, y) == Norm(x[1] * y[2] - y[1] * x[2], x[2] * y[2])
RMul(x, y) == Norm(x[1] * y[1], x[2] * y[2])
RDiv(x, y) == Norm(x[1] * y[2], x[2] * y[1])
IsZero(x) == x[1] = 0 /\ x[2] # 0

\* ------------------------------------------------------------------------
\* Pointers (double*)
\* ------------------------------------------------------------------------
NULL == [k |-> "null", t |-> 0, i |-> 0]
Ptr(kind, t, i) == [k |-> kind, t |-> t, i |-> i]
NullVec == <<NULL, NULL>>
NoVal == <<>>

VARIABLES
  instance,               \* "none", "constructed" or "TransmissionException"
  args,                   \* the constructor's three arguments (history)
  actuator_reduction_,
  joint_reduction_,
  joint_offset_,
  joint_pos_vec_,         \* the workspace: two double*
  act,                    \* act[t]: the two actuator slots of caller t
  jnt,                    \* jnt[t]: the two joint slots of caller t
  joint_pos_with_offset,  \* joint_pos_with_offset[t]: the local array of t's
                          \* jointToActuatorPosition call, NoVal when not live
  frame,                  \* frame[t]: the call thread t is executing
  last,                   \* last[t]: the last call thread t completed (history)
  ncalls                  \* calls started so far

vars == <<instance, args, actuator_reduction_, joint_reduction_, joint_offset_,
          joint_pos_vec_, act, jnt, joint_pos_with_offset, frame, last, ncalls>>

fields == <<actuator_reduction_, joint_reduction_, joint_offset_>>

\* ------------------------------------------------------------------------
\* Inputs
\* ------------------------------------------------------------------------
Reductions == {R(-1), R(0), R(2)}
Offsets == {R(0), R(1)}
WrongSizes == (0..MaxSize) \ {2}

\* The vectors offered to the constructor: every vector of size 2 over S, and
\* for each wrong size the vectors holding one value of S throughout.
ArgVectors(S) ==
  {<<a, b>> : a \in S, b \in S} \cup
  {[i \in 1..n |-> v] : n \in WrongSizes, v \in S}

SlotValues == {R(0), R(1)}
SlotPairs == {<<a, b>> : a \in SlotValues, b \in SlotValues}

\* What a read through a dangling or null pointer may yield.
Garbage == SlotValues

Ops == {"actuatorToJointEffort", "actuatorToJointVelocity", "actuatorToJointPosition",
        "jointToActuatorEffort", "jointToActuatorVelocity", "jointToActuatorPosition"}
ActuatorToJoint == {"actuatorToJointEffort", "actuatorToJointVelocity", "actuatorToJointPosition"}

\* ------------------------------------------------------------------------
\* Constructor
\* ------------------------------------------------------------------------
\* Mutant: the zero check leaves out joint_reduction_[1].
DifferentialTransmission_m(actuator_reduction, joint_reduction, joint_offset) ==
  IF 2 # Len(actuator_reduction) \/ 2 # Len(joint_reduction) \/ 2 # Len(joint_offset)
  THEN "TransmissionException"
  ELSE IF IsZero(actuator_reduction[1]) \/ IsZero(actuator_reduction[2]) \/
          IsZero(joint_reduction[1])
       THEN "TransmissionException"
       ELSE "constructed"

\* The outcome of the constructor: the size check comes first, so that no
\* element of a vector of the wrong size is read.
DifferentialTransmission(actuator_reduction, joint_reduction, joint_offset) ==
  IF 2 # Len(actuator_reduction) \/ 2 # Len(joint_reduction) \/ 2 # Len(joint_offset)
  THEN "TransmissionException"
  ELSE IF IsZero(actuator_reduction[1]) \/ IsZero(actuator_reduction[2]) \/
          IsZero(joint_reduction[1]) \/ IsZero(joint_reduction[2])
       THEN "TransmissionException"
       ELSE "constructed"

IdleFrame == [op |-> "none", pc |-> "idle", in |-> NullVec, out |-> NullVec,
              vin |-> NullVec, in0 |-> NoVal]
NoCall == [op |-> "none", in |-> NoVal, out |-> NoVal]

Init ==
  /\ instance = "none"
  /\ args = <<>>
  /\ actuator_reduction_ = <<>>
  /\ joint_reduction_ = <<>>
  /\ joint_offset_ = <<>>
  /\ joint_pos_vec_ = <<>>
  /\ act = [t \in Threads |-> <<R(0), R(0)>>]
  /\ jnt = [t \in Threads |-> <<R(0), R(0)>>]
  /\ joint_pos_with_offset = [t \in Threads |-> NoVal]
  /\ frame = [t \in Threads |-> IdleFrame]
  /\ last = [t \in Threads |-> NoCall]
  /\ ncalls = 0

\* new DifferentialTransmission(a, j, o): the members are copy-initialised,
\* joint_pos_vec_ gets two null pointers, then the checks run; when a check
\* throws no object exists.
Construct ==
  /\ instance = "none"
  /\ \E a \in ArgVectors(Reductions), j \in ArgVectors(Reductions), o \in ArgVectors(Offsets) :
       /\ args' = <<a, j, o>>
       /\ instance' = DifferentialTransmission(a, j, o)
       /\ IF instance' = "constructed"
          THEN /\ actuator_reduction_' = a
               /\ joint_reduction_' = j
               /\ joint_offset_' = o
               /\ joint_pos_vec_' = NullVec
          ELSE UNCHANGED <<fields, joint_pos_vec_>>
  /\ UNCHANGED <<act, jnt, joint_pos_with_offset, frame, last, ncalls>>

\* ------------------------------------------------------------------------
\* Memory access through double*
\* ------------------------------------------------------------------------
\* The values *p may yield.  A caller slot and a live local yield their value;
\* a local of a call that has returned, or a null pointer, yields anything.
LoadSet(p) ==
  CASE p.k = "act" -> {act[p.t][p.i]}
    [] p.k = "jnt" -> {jnt[p.t][p.i]}
    [] p.k = "tmp" -> IF joint_pos_with_offset[p.t] # NoVal
                      THEN {joint_pos_with_offset[p.t][p.i]}
                      ELSE Garbage
    [] OTHER -> Garbage

\* *p = v, for p one of the caller's slots.
Store(p, v) ==
  /\ act' = IF p.k = "act" THEN [act EXCEPT ![p.t][p.i] = v] ELSE act
  /\ jnt' = IF p.k = "jnt" THEN [jnt EXCEPT ![p.t][p.i] = v] ELSE jnt

\* The current value of a caller slot.
Val(p) == IF p.k = "act" THEN act[p.t][p.i] ELSE jnt[p.t][p.i]

Goto(t, l) == frame' = [frame EXCEPT ![t].pc = l]

\* ------------------------------------------------------------------------
\* The right-hand sides of the eight flow-map assignments
\* ------------------------------------------------------------------------
joint_eff_0(a0, a1) ==
  RMul(joint_reduction_[1],
       RAdd(RMul(a0, actuator_reduction_[1]), RMul(a1, actuator_reduction_[2])))
\* Mutant: the sum again, as in line 190.
joint_eff_1_m(a0, a1) ==
  RMul(joint_reduction_[2],
       RAdd(RMul(a0, actuator_reduction_[1]), RMul(a1, actuator_reduction_[2])))
joint_eff_1(a0, a1) ==
  RMul(joint_reduction_[2],
       RSub(RMul(a0, actuator_reduction_[1]), RMul(a1, actuator_reduction_[2])))

joint_vel_0(a0, a1) ==
  RDiv(RAdd(RDiv(a0, actuator_reduction_[1]), RDiv(a1, actuator_reduction_[2])),
       RMul(R(2), joint_reduction_[1]))
joint_vel_1(a0, a1) ==
  RDiv(RSub(RDiv(a0, actuator_reduction_[1]), RDiv(a1, actuator_reduction_[2])),
       RMul(R(2), joint_reduction_[2]))

actuator_eff_0(j0, j1) ==
  RDiv(RAdd(RDiv(j0, joint_reduction_[1]), RDiv(j1, joint_reduction_[2])),
       RMul(R(2), actuator_reduction_[1]))
\* Mutant: divides by 2.0 * ar[0] again, as in line 219.
actuator_eff_1_m(j0, j1) ==
  RDiv(RSub(RDiv(j0, joint_reduction_[1]), RDiv(j1, joint_reduction_[2])),
       RMul(R(2), actuator_reduction_[1]))
actuator_eff_1(j0, j1) ==
  RDiv(RSub(RDiv(j0, joint_reduction_[1]), RDiv(j1, joint_reduction_[2])),
       RMul(R(2), actuator_reduction_[2]))

actuator_vel_0(j0, j1) ==
  RMul(RAdd(RMul(j0, joint_reduction_[1]), RMul(j1, joint_reduction_[2])),
       actuator_reduction_[1])
\* Mutant: the sum again, as in line 229.
actuator_vel_1_m(j0, j1) ==
  RMul(RAdd(RMul(j0, joint_reduction_[1]), RMul(j1, joint_reduction_[2])),
       actuator_reduction_[2])
actuator_vel_1(j0, j1) ==
  RMul(RSub(RMul(j0, joint_reduction_[1]), RMul(j1, joint_reduction_[2])),
       actuator_reduction_[2])

\* ------------------------------------------------------------------------
\* A caller starts a conversion
\* ------------------------------------------------------------------------
InKind(op) == IF op \in ActuatorToJoint THEN "act" ELSE "jnt"
OutKind(op) == IF op \in ActuatorToJoint THEN "jnt" ELSE "act"

FirstLine(op) ==
  CASE op = "actuatorToJointEffort" -> "l190"
    [] op = "actuatorToJointVelocity" -> "l200"
    [] op = "actuatorToJointPosition" -> "l208"
    [] op = "jointToActuatorEffort" -> "l219"
    [] op = "jointToActuatorVelocity" -> "l229"
    [] op = "jointToActuatorPosition" -> "l237"

\* Thread t calls op on its own slots: two input slots, two output slots
\* (the asserts on the sizes hold).  With x a pair the caller first writes x
\* into the input slots; with x = NoVal it passes them as they are, which is
\* how the result of one conversion is fed to the next.
Call(t, op, x) ==
  /\ instance = "constructed"
  /\ frame[t].pc = "idle"
  /\ ncalls < MaxCalls
  /\ LET ins == <<Ptr(InKind(op), t, 1), Ptr(InKind(op), t, 2)>>
         outs == <<Ptr(OutKind(op), t, 1), Ptr(OutKind(op), t, 2)>>
         cur == IF op \in ActuatorToJoint THEN act[t] ELSE jnt[t]
         given == IF x = NoVal THEN cur ELSE x
     IN  /\ act' = IF op \in ActuatorToJoint THEN [act EXCEPT ![t] = given] ELSE act
         /\ jnt' = IF op \in ActuatorToJoint THEN jnt ELSE [jnt EXCEPT ![t] = given]
         /\ frame' = [frame EXCEPT ![t] =
                        [op |-> op, pc |-> FirstLine(op), in |-> ins, out |-> outs,
                         vin |-> IF op \in {"actuatorToJointVelocity", "jointToActuatorVelocity"}
                                 THEN ins ELSE NullVec,
                         in0 |-> given]]
  /\ ncalls' = ncalls + 1
  /\ UNCHANGED <<instance, args, fields, joint_pos_vec_, joint_pos_with_offset, last>>

\* ------------------------------------------------------------------------
\* The statements of the six conversions
\* ------------------------------------------------------------------------
At(t, l) == instance = "constructed" /\ frame[t].pc = l

Rest == <<instance, args, fields, joint_pos_vec_, joint_pos_with_offset, last, ncalls>>

\* *joint_eff[0] = jr[0] * (*actuator_eff[0] * ar[0] + *actuator_eff[1] * ar[1]);
actuatorToJointEffort_l190(t) ==
  /\ At(t, "l190")
  /\ \E a0 \in LoadSet(frame[t].in[1]), a1 \in LoadSet(frame[t].in[2]) :
       Store(frame[t].out[1], joint_eff_0(a0, a1))
  /\ Goto(t, "l191")
  /\ UNCHANGED Rest

\* *joint_eff[1] = jr[1] * (*actuator_eff[0] * ar[0] - *actuator_eff[1] * ar[1]);
actuatorToJointEffort_l191(t) ==
  /\ At(t, "l191")
  /\ \E a0 \in LoadSet(frame[t].in[1]), a1 \in LoadSet(frame[t].in[2]) :
       Store(frame[t].out[2], joint_eff_1(a0, a1))
  /\ Goto(t, "ret")
  /\ UNCHANGED Rest

\* *joint_vel[0] = (*actuator_vel[0] / ar[0] + *actuator_vel[1] / ar[1]) / (2.0 * jr[0]);
actuatorToJointVelocity_l200(t) ==
  /\ At(t, "l200")
  /\ \E a0 \in LoadSet(frame[t].vin[1]), a1 \in LoadSet(frame[t].vin[2]) :
       Store(frame[t].out[1], joint_vel_0(a0, a1))
  /\ Goto(t, "l201")
  /\ UNCHANGED Rest

\* *joint_vel[1] = (*actuator_vel[0] / ar[0] - *actuator_vel[1] / ar[1]) / (2.0 * jr[1]);
\* then back to the caller: actuatorToJointPosition goes on at line 209.
actuatorToJointVelocity_l201(t) ==
  /\ At(t, "l201")
  /\ \E a0 \in LoadSet(frame[t].vin[1]), a1 \in LoadSet(frame[t].vin[2]) :
       Store(frame[t].out[2], joint_vel_1(a0, a1))
  /\ Goto(t, IF frame[t].op = "actuatorToJointPosition" THEN "l209" ELSE "ret")
  /\ UNCHANGED Rest

\* Mutant: the argument vector is kept in the workspace field the first time
\* and reused from there afterwards.
actuatorToJointPosition_l208_m(t) ==
  /\ At(t, "l208")
  /\ IF joint_pos_vec_ = NullVec
     THEN /\ joint_pos_vec_' = frame[t].in
          /\ frame' = [frame EXCEPT ![t].vin = frame[t].in, ![t].pc = "l200"]
     ELSE /\ joint_pos_vec_' = joint_pos_vec_
          /\ frame' = [frame EXCEPT ![t].vin = joint_pos_vec_, ![t].pc = "l200"]
  /\ UNCHANGED <<instance, args, fields, act, jnt, joint_pos_with_offset, last, ncalls>>

\* actuatorToJointVelocity(actuator_pos, joint_pos): the two pointer vectors
\* are passed by value.
actuatorToJointPosition_l208(t) ==
  /\ At(t, "l208")
  /\ frame' = [frame EXCEPT ![t].vin = frame[t].in, ![t].pc = "l200"]
  /\ UNCHANGED <<act, jnt>>
  /\ UNCHANGED Rest

\* Mutant: the operands of += swapped, joint_offset_[0] += *joint_pos[0].
actuatorToJointPosition_l209_m(t) ==
  /\ At(t, "l209")
  /\ \E j0 \in LoadSet(frame[t].out[1]) :
       joint_offset_' = [joint_offset_ EXCEPT ![1] = RAdd(@, j0)]
  /\ Goto(t, "l210")
  /\ UNCHANGED <<instance, args, actuator_reduction_, joint_reduction_, joint_pos_vec_,
                 act, jnt, joint_pos_with_offset, last, ncalls>>

\* *joint_pos[0] += joint_offset_[0];
actuatorToJointPosition_l209(t) ==
  /\ At(t, "l209")
  /\ \E j0 \in LoadSet(frame[t].out[1]) :
       Store(frame[t].out[1], RAdd(j0, joint_offset_[1]))
  /\ Goto(t, "l210")
  /\ UNCHANGED Rest

\* Mutant: index slip, *joint_pos[1] += joint_offset_[0].
actuatorToJointPosition_l210_m(t) ==
  /\ At(t, "l210")
  /\ \E j1 \in LoadSet(frame[t].out[2]) :
       Store(frame[t].out[2], RAdd(j1, joint_offset_[1]))
  /\ Goto(t, "ret")
  /\ UNCHANGED Rest

\* *joint_pos[1] += joint_offset_[1];
actuatorToJointPosition_l210(t) ==
  /\ At(t, "l210")
  /\ \E j1 \in LoadSet(frame[t].out[2]) :
       Store(frame[t].out[2], RAdd(j1, joint_offset_[2]))
  /\ Goto(t, "ret")
  /\ UNCHANGED Rest

\* *actuator_eff[0] = (*joint_eff[0] / jr[0] + *joint_eff[1] / jr[1]) / (2.0 * ar[0]);
jointToActuatorEffort_l219(t) ==
  /\ At(t, "l219")
  /\ \E j0 \in LoadSet(frame[t].in[1]), j1 \in LoadSet(frame[t].in[2]) :
       Store(frame[t].out[1], actuator_eff_0(j0, j1))
  /\ Goto(t, "l220")
  /\ UNCHANGED Rest

\* *actuator_eff[1] = (*joint_eff[0] / jr[0] - *joint_eff[1] / jr[1]) / (2.0 * ar[1]);
jointToActuatorEffort_l220(t) ==
  /\ At(t, "l220")
  /\ \E j0 \in LoadSet(frame[t].in[1]), j1 \in LoadSet(frame[t].in[2]) :
       Store(frame[t].out[2], actuator_eff_1(j0, j1))
  /\ Goto(t, "ret")
  /\ UNCHANGED Rest

\* *actuator_vel[0] = (*joint_vel[0] * jr[0] + *joint_vel[1] * jr[1]) * ar[0];
jointToActuatorVelocity_l229(t) ==
  /\ At(t, "l229")
  /\ \E j0 \in LoadSet(frame[t].vin[1]), j1 \in LoadSet(frame[t].vin[2]) :
       Store(frame[t].out[1], actuator_vel_0(j0, j1))
  /\ Goto(t, "l230")
  /\ UNCHANGED Rest

\* *actuator_vel[1] = (*joint_vel[0] * jr[0] - *joint_vel[1] * jr[1]) * ar[1];
jointToActuatorVelocity_l230(t) ==
  /\ At(t, "l230")
  /\ \E j0 \in LoadSet(frame[t].vin[1]), j1 \in LoadSet(frame[t].vin[2]) :
       Store(frame[t].out[2], actuator_vel_1(j0, j1))
  /\ Goto(t, "ret")
  /\ UNCHANGED Rest

\* Mutant: the offset is subtracted in the caller's joint slots themselves
\* (what the workspace is there to avoid).
jointToActuatorPosition_l237_inplace(t) ==
  /\ At(t, "l237")
  /\ \E j0 \in LoadSet(frame[t].in[1]), j1 \in LoadSet(frame[t].in[2]) :
       LET w == <<RSub(j0, joint_offset_[1]), RSub(j1, joint_offset_[2])>>
       IN  /\ joint_pos_with_offset' = [joint_pos_with_offset EXCEPT ![t] = w]
           /\ jnt' = [jnt EXCEPT ![frame[t].in[1].t] = w]
  /\ Goto(t, "l239")
  /\ UNCHANGED <<instance, args, fields, joint_pos_vec_, act, last, ncalls>>

\* Mutant: sign slip, the offset is added instead of subtracted.
jointToActuatorPosition_l237_m(t) ==
  /\ At(t, "l237")
  /\ \E j0 \in LoadSet(frame[t].in[1]), j1 \in LoadSet(frame[t].in[2]) :
       joint_pos_with_offset' =
         [joint_pos_with_offset EXCEPT
            ![t] = <<RAdd(j0, joint_offset_[1]), RAdd(j1, joint_offset_[2])>>]
  /\ Goto(t, "l239")
  /\ UNCHANGED <<instance, args, fields, joint_pos_vec_, act, jnt, last, ncalls>>

\* double joint_pos_with_offset[2] = {*joint_pos[0] - joint_offset_[0],
\*                                    *joint_pos[1] - joint_offset_[1]};
jointToActuatorPosition_l237(t) ==
  /\ At(t, "l237")
  /\ \E j0 \in LoadSet(frame[t].in[1]), j1 \in LoadSet(frame[t].in[2]) :
       joint_pos_with_offset' =
         [joint_pos_with_offset EXCEPT
            ![t] = <<RSub(j0, joint_offset_[1]), RSub(j1, joint_offset_[2])>>]
  /\ Goto(t, "l239")
  /\ UNCHANGED <<instance, args, fields, joint_pos_vec_, act, jnt, last, ncalls>>

\* joint_pos_vec_[0] = &joint_pos_with_offset[0];
jointToActuatorPosition_l239(t) ==
  /\ At(t, "l239")
  /\ joint_pos_vec_' = [joint_pos_vec_ EXCEPT ![1] = Ptr("tmp", t, 1)]
  /\ Goto(t, "l240")
  /\ UNCHANGED <<instance, args, fields, act, jnt, joint_pos_with_offset, last, ncalls>>

\* Mutant: index slip, joint_pos_vec_[0] = &joint_pos_with_offset[1].
jointToActuatorPosition_l240_m(t) ==
  /\ At(t, "l240")
  /\ joint_pos_vec_' = [joint_pos_vec_ EXCEPT ![1] = Ptr("tmp", t, 2)]
  /\ Goto(t, "l241")
  /\ UNCHANGED <<instance, args, fields, act, jnt, joint_pos_with_offset, last, ncalls>>

\* joint_pos_vec_[1] = &joint_pos_with_offset[1];
jointToActuatorPosition_l240(t) ==
  /\ At(t, "l240")
  /\ joint_pos_vec_' = [joint_pos_vec_ EXCEPT ![2] = Ptr("tmp", t, 2)]
  /\ Goto(t, "l241")
  /\ UNCHANGED <<instance, args, fields, act, jnt, joint_pos_with_offset, last, ncalls>>

\* jointToActuatorVelocity(joint_pos_vec_, actuator_pos): the parameter
\* joint_vel is a copy of the field joint_pos_vec_, made element by element.
\* First element:
jointToActuatorPosition_l241_0(t) ==
  /\ At(t, "l241")
  /\ frame' = [frame EXCEPT ![t].vin[1] = joint_pos_vec_[1], ![t].pc = "l241_1"]
  /\ UNCHANGED <<act, jnt>>
  /\ UNCHANGED Rest

\* second element, and the callee starts.
jointToActuatorPosition_l241_1(t) ==
  /\ At(t, "l241_1")
  /\ frame' = [frame EXCEPT ![t].vin[2] = joint_pos_vec_[2], ![t].pc = "l229"]
  /\ UNCHANGED <<act, jnt>>
  /\ UNCHANGED Rest

\* The conversion returns to its caller; the local array of
\* jointToActuatorPosition dies, joint_pos_vec_ keeps pointing at it.
Return(t) ==
  /\ At(t, "ret")
  /\ last' = [last EXCEPT ![t] = [op |-> frame[t].op, in |-> frame[t].in0,
                                  out |-> <<Val(frame[t].out[1]), Val(frame[t].out[2])>>]]
  /\ joint_pos_with_offset' = [joint_pos_with_offset EXCEPT ![t] = NoVal]
  /\ frame' = [frame EXCEPT ![t] = IdleFrame]
  /\ UNCHANGED <<instance, args, fields, joint_pos_vec_, act, jnt, ncalls>>

Step(t) ==
  \/ actuatorToJointEffort_l190(t)
  \/ actuatorToJointEffort_l191(t)
  \/ actuatorToJointVelocity_l200(t)
  \/ actuatorToJointVelocity_l201(t)
  \/ actuatorToJointPosition_l208(t)
  \/ actuatorToJointPosition_l209(t)
  \/ actuatorToJointPosition_l210(t)
  \/ jointToActuatorEffort_l219(t)
  \/ jointToActuatorEffort_l220(t)
  \/ jointToActuatorVelocity_l229(t)
  \/ jointToActuatorVelocity_l230(t)
  \/ jointToActuatorPosition_l237(t)
  \/ jointToActuatorPosition_l239(t)
  \/ jointToActuatorPosition_l240(t)
  \/ jointToActuatorPosition_l241_0(t)
  \/ jointToActuatorPosition_l241_1(t)
  \/ Return(t)

\* ------------------------------------------------------------------------
\* Specifications
\* ------------------------------------------------------------------------
\* One caller: the conversions run one after the other.
Next ==
  \/ Construct
  \/ \E op \in Ops, x \in SlotPairs \cup {NoVal} : Call(MainThread, op, x)
  \/ Step(MainThread)

Spec == Init /\ [][Next]_vars

\* Two callers, each making one call on the same instance with no
\* serialisation between them.
NextConc ==
  \/ Construct
  \/ \E t \in Threads, op \in Ops, x \in SlotPairs :
       last[t] = NoCall /\ Call(t, op, x)
  \/ \E t \in Threads : Step(t)

SpecConc == Init /\ [][NextConc]_vars

\* ------------------------------------------------------------------------
\* The conversions as functions of a pair of values
\* ------------------------------------------------------------------------
actuatorToJointEffort(x) == <<joint_eff_0(x[1], x[2]), joint_eff_1(x[1], x[2])>>
actuatorToJointVelocity(x) == <<joint_vel_0(x[1], x[2]), joint_vel_1(x[1], x[2])>>
actuatorToJointPosition(x) ==
  LET v == actuatorToJointVelocity(x)
  IN  <<RAdd(v[1], joint_offset_[1]), RAdd(v[2], joint_offset_[2])>>
jointToActuatorEffort(x) == <<actuator_eff_0(x[1], x[2]), actuator_eff_1(x[1], x[2])>>
jointToActuatorVelocity(x) == <<actuator_vel_0(x[1], x[2]), actuator_vel_1(x[1], x[2])>>
jointToActuatorPosition(x) ==
  jointToActuatorVelocity(<<RSub(x[1], joint_offset_[1]), RSub(x[2], joint_offset_[2])>>)

\* What a call of op on the values x writes when nothing else runs.
Alone(op, x) ==
  CASE op = "actuatorToJointEffort" -> actuatorToJointEffort(x)
    [] op = "actuatorToJointVelocity" -> actuatorToJointVelocity(x)
    [] op = "actuatorToJointPosition" -> actuatorToJointPosition(x)
    [] op = "jointToActuatorEffort" -> jointToActuatorEffort(x)
    [] op = "jointToActuatorVelocity" -> jointToActuatorVelocity(x)
    [] op = "jointToActuatorPosition" -> jointToActuatorPosition(x)

\* Thread t's call of op has executed its last statement.
Done(t, op) == instance = "constructed" /\ frame[t].pc = "ret" /\ frame[t].op = op
\* The values in the output slots of thread t's call.
Out(t) == <<Val(frame[t].out[1]), Val(frame[t].out[2])>>
\* Thread t's call is fed the result of the call of op it made just before.
Chained(t, op) == last[t].op = op /\ frame[t].in0 = last[t].out

Zero2 == <<R(0), R(0)>>

\* ========================================================================
\* Claims
\* ========================================================================

\* C1: construction throws TransmissionException if and only if one of the
\* three vectors has a size other than 2 or one of the four reductions is
\* zero; otherwise (any offsets) it succeeds.
C1_ConstructionFailsIffBadSizeOrZeroReduction ==
  instance # "none" =>
    LET a == args[1]
        j == args[2]
        o == args[3]
        badSize == Len(a) # 2 \/ Len(j) # 2 \/ Len(o) # 2
        zeroRed == \/ \E i \in DOMAIN a : a[i] = R(0)
                   \/ \E i \in DOMAIN j : j[i] = R(0)
    IN  /\ instance \in {"constructed", "TransmissionException"}
        /\ (instance = "TransmissionException") <=> (badSize \/ zeroRed)

\* Three vectors of size 2, the only zero reduction being joint_reduction[1]:
\* construction has thrown.
C1_Witness ==
  /\ instance = "TransmissionException"
  /\ Len(args[1]) = 2 /\ Len(args[2]) = 2 /\ Len(args[3]) = 2
  /\ args[1][1] # R(0) /\ args[1][2] # R(0) /\ args[2][1] # R(0)
  /\ args[2][2] = R(0)

\* C2: jointToActuatorEffort applied to the result of actuatorToJointEffort
\* returns the original actuator values, and likewise for velocity.
C2_EffortVelocityRoundTrip ==
  \A t \in Threads :
    /\ (Done(t, "jointToActuatorEffort") /\ Chained(t, "actuatorToJointEffort"))
         => Out(t) = last[t].in
    /\ (Done(t, "jointToActuatorVelocity") /\ Chained(t, "actuatorToJointVelocity"))
         => Out(t) = last[t].in

\* A velocity round trip of the values (1, 1) through an instance with two
\* different actuator reductions has completed.
C2_Witness ==
  /\ Done(MainThread, "jointToActuatorVelocity")
  /\ Chained(MainThread, "actuatorToJointVelocity")
  /\ last[MainThread].in = <<R(1), R(1)>>
  /\ actuator_reduction_[1] # actuator_reduction_[2]
  /\ joint_reduction_[1] # joint_reduction_[2]

\* C3: jointToActuatorPosition applied to the result of
\* actuatorToJointPosition returns the original actuator positions, whatever
\* the joint offsets.
C3_PositionRoundTrip ==
  \A t \in Threads :
    (Done(t, "jointToActuatorPosition") /\ Chained(t, "actuatorToJointPosition"))
      => Out(t) = last[t].in

\* A position round trip has completed on an instance whose two joint
\* offsets differ.
C3_Witness ==
  /\ Done(MainThread, "jointToActuatorPosition")
  /\ Chained(MainThread, "actuatorToJointPosition")
  /\ last[MainThread].in = <<R(1), R(1)>>
  /\ joint_offset_ = <<R(1), R(0)>>
  /\ actuator_reduction_[1] # actuator_reduction_[2]

\* C4: under every interleaving, a call of one of the five conversions other
\* than jointToActuatorPosition leaves in its output slots what it writes
\* when run alone; and as long as no jointToActuatorPosition was called, no
\* field of the instance has been written.
C4_FiveOperationsThreadSafe ==
  /\ \A t \in Threads :
       (instance = "constructed" /\ frame[t].pc = "ret"
          /\ frame[t].op # "jointToActuatorPosition")
         => Out(t) = Alone(frame[t].op, frame[t].in0)
  /\ (instance = "constructed" /\
      \A t \in Threads : /\ frame[t].op # "jointToActuatorPosition"
                         /\ last[t].op # "jointToActuatorPosition")
       => /\ joint_pos_vec_ = NullVec
          /\ <<actuator_reduction_, joint_reduction_, joint_offset_>> = args

\* Thread 1 has finished actuatorToJointPosition while thread 2 is in the
\* middle of jointToActuatorPosition on other values.
C4_Witness ==
  /\ Done(1, "actuatorToJointPosition")
  /\ frame[2].op = "jointToActuatorPosition" /\ frame[2].pc = "l230"
  /\ frame[1].in0 = <<R(1), R(0)>>
  /\ frame[2].in0 = <<R(0), R(1)>>
  /\ joint_offset_ = <<R(1), R(1)>>

\* C5: jointToActuatorPosition passes the shared field joint_pos_vec_ to the
\* flow map.  The copy a call reads out of it holds, at index i, a pointer to
\* element i of the local array of some jointToActuatorPosition call, its own
\* or another thread's; the call's result is the one it computes alone
\* whenever both pointers are its own.  (Its witness is the race: a call
\* that read the other call's pointers and computed the other call's result.)
C5_WorkspaceSharedPerInstance ==
  \A t \in Threads :
    (instance = "constructed" /\ frame[t].op = "jointToActuatorPosition"
       /\ frame[t].pc \in {"l229", "l230", "ret"})
      => /\ \A i \in {1, 2} :
              /\ frame[t].vin[i].k = "tmp"
              /\ frame[t].vin[i].i = i
              /\ \/ frame[t].vin[i].t = t
                 \/ "jointToActuatorPosition" \in {frame[frame[t].vin[i].t].op,
                                                   last[frame[t].vin[i].t].op}
         /\ (frame[t].pc = "ret" /\ frame[t].vin[1].t = t /\ frame[t].vin[2].t = t)
              => Out(t) = Alone("jointToActuatorPosition", frame[t].in0)

\* Two concurrent jointToActuatorPosition calls on different joint positions:
\* one of them has finished with the pointers of the other call in its copy
\* of the workspace, and its output is the flow map of the other call's
\* offset-corrected values, not what it computes alone.
C5_Witness ==
  \E t \in Threads, u \in Threads :
    /\ t # u
    /\ Done(t, "jointToActuatorPosition")
    /\ frame[u].op = "jointToActuatorPosition"
    /\ joint_pos_with_offset[u] # NoVal
    /\ frame[t].in0 # frame[u].in0
    /\ frame[t].vin = <<Ptr("tmp", u, 1), Ptr("tmp", u, 2)>>
    /\ Out(t) = jointToActuatorVelocity(joint_pos_with_offset[u])
    /\ Out(t) # Alone("jointToActuatorPosition", frame[t].in0)

\* C6: jointToActuatorPosition never modifies the caller's joint-position
\* slots: throughout the call they hold the values they held when it started.
C6_JointSlotsUnmodified ==
  \A t \in Threads :
    (instance = "constructed" /\ frame[t].op = "jointToActuatorPosition")
      => jnt[t] = frame[t].in0

\* A jointToActuatorPosition call with nonzero offsets has finished and has
\* written nonzero actuator positions.
C6_Witness ==
  /\ Done(MainThread, "jointToActuatorPosition")
  /\ joint_offset_ = <<R(1), R(1)>>
  /\ frame[MainThread].in0 = <<R(0), R(1)>>
  /\ joint_pos_with_offset[MainThread] = <<R(-1), R(0)>>
  /\ Out(MainThread) # Zero2

\* C7: after any sequence of conversion calls the three parameter vectors
\* equal the constructor's arguments, have two elements each and hold no zero
\* reduction; no step of a conversion changes them, and the workspace
\* joint_pos_vec_ is changed only by a step of jointToActuatorPosition.
C7_ParametersFrozen ==
  /\ [](instance = "constructed" =>
          /\ <<actuator_reduction_, joint_reduction_, joint_offset_>> = args
          /\ Len(actuator_reduction_) = 2
          /\ Len(joint_reduction_) = 2
          /\ Len(joint_offset_) = 2
          /\ \A i \in {1, 2} : /\ ~IsZero(actuator_reduction_[i])
                               /\ ~IsZero(joint_reduction_[i]))
  /\ [][instance = "constructed" =>
          /\ fields' = fields
          /\ joint_pos_vec_' # joint_pos_vec_ =>
               \E t \in Threads : /\ frame[t].op = "jointToActuatorPosition"
                                  /\ frame'[t] # frame[t]]_vars

\* Two calls have completed, actuatorToJointPosition the later one, and the
\* workspace has been written by a jointToActuatorPosition call.
C7_Witness ==
  /\ instance = "constructed"
  /\ ncalls = 2
  /\ last[MainThread].op = "actuatorToJointPosition"
  /\ joint_pos_vec_ = <<Ptr("tmp", MainThread, 1), Ptr("tmp", MainThread, 2)>>
  /\ joint_offset_ = <<R(1), R(1)>>

====
